---- MODULE Spec2Model ----
(***************************************************************************)
(* Castle structural-integrity subsystem of the platformer demo            *)
(* (src/src/demo/castle.rs, src/src/demo/collision.rs).                    *)
(*                                                                         *)
(* Castle blocks are ECS entities spawned from level data.  The Update     *)
(* schedule runs create_mortar_joints, update_castle_mass,                 *)
(* fireball_collisions and handle_castle_impulses once per frame, in no    *)
(* fixed order; what they ask of Commands is deferred to a sync point or   *)
(* to the end of the frame.  The level is scoped to the Gameplay screen:   *)
(* leaving the screen despawns it, entering the screen spawns it again.    *)
(***************************************************************************)
EXTENDS Integers, Sequences, FiniteSets

\* ---------------------------------------------------------------- bounds
NumBlocks == 3
MaxX == 2
MaxY == 1
MaxFireballs == 1
MaxLoads == 2

\* ------------------------------------------------------ program constants
grid_cell_size == 16
BREAKING_IMPULSE_THRESHOLD == 30000
CASTLE_MASS == 10000

Blocks == 1..NumBlocks

\* Footprint widths and heights (world units) the level data may hold: a
\* width below half a cell, one cell, two cells.
Widths == {4, 16, 32}
Heights == {16, 32}

\* Footprint sizes with those that are no whole number of cells: a quarter
\* cell, half a cell, one cell, one and a half, two, two and a half.
IndexSizes == {4, 8, 16, 24, 32, 40}

\* Impulse magnitudes an explosion may leave on a block: one unit below the
\* breaking threshold, the threshold itself, one unit above it.
Impulses == {BREAKING_IMPULSE_THRESHOLD - 1, BREAKING_IMPULSE_THRESHOLD,
             BREAKING_IMPULSE_THRESHOLD + 1}

\* Absence of the ShockwaveHit component.
NoHit == 0

\* Mass::default(), the value the bundle is spawned with.
DefaultMass == 0

\* One block placement record of the level data: GridCoords and BlockSize.
BlockData == [x : 0..MaxX, y : 0..MaxY, w : Widths, h : Heights]

\* The array with its two commented-out entries (Left, Up) put back.
directions_all_four == << <<1, 0>>, <<-1, 0>>, <<0, 1>>, <<0, -1>> >>

\* The array with its Down entry left out as well.
directions_right_only == << <<1, 0>> >>

\* The probe directions of create_mortar_joints, in the order of the array.
directions == << <<1, 0>>, <<0, -1>> >>

SysMortar == "create_mortar_joints"
SysFireball == "fireball_collisions"
SysCastle == "handle_castle_impulses"
SysMass == "update_castle_mass"
SysFrostbolt == "frostbolt_collisions"
SysFrostbite == "apply_frostbite"

VARIABLES
    level,              \* block |-> its GridCoords and BlockSize
    spawned,            \* the level's castle entities exist
    addedCastleBlock,   \* blocks that Added<CastleBlock> still matches for create_mortar_joints
    ran_mortar_joints,  \* Local<bool> of create_mortar_joints
    joints,             \* the FixedJoint entities
    nextEntity,         \* the next free entity id
    castleJoints,       \* block |-> CastleBlock.joints
    children,           \* block |-> its Children component (empty: no such component)
    evaluations,        \* block |-> number of handler runs its present ShockwaveHit was selected by
    hit,                \* block |-> magnitude of its ShockwaveHit, or NoHit
    hitAdded,           \* blocks that Added<ShockwaveHit> still matches for handle_castle_impulses
    explosionAssets,    \* the ExplosionAssets resource exists
    ran,                \* systems that have run in the current frame
    cmds,               \* system |-> its deferred Commands, in the order queued
    loads,              \* number of times the level has been spawned
    orphanJoints,       \* FixedJoint entities whose blocks went with an unloaded level
    mass,               \* block |-> its Mass component
    ran_update_mass,    \* Local<bool> of update_castle_mass
    addedForMass,       \* blocks that Added<CastleBlock> still matches for update_castle_mass
    ldtkReady,          \* the LdtkReady resource exists
    gridBlocks,         \* the two Blocks is_neighbour is called on
    isNeighbour,        \* i |-> what gridBlocks[i].is_neighbour(the other block) returned, << >> before the call
    testAsserts,        \* test |-> the values of the assertions it has evaluated
    bodies,             \* the rigid bodies around one explosion
    shockwave,          \* body |-> the impulse magnitude one explosion gave it, << >> before the explosion
    frost,              \* block |-> magnitude of its FrostEffect, or NoFrost
    despawned,          \* castle blocks that were despawned one by one
    panicked,           \* a command failed on a missing entity and the app panicked
    frostAssets         \* the FrostAssets resource exists

vars == <<level, spawned, addedCastleBlock, ran_mortar_joints, joints, nextEntity,
          castleJoints, children, evaluations, hit, hitAdded, explosionAssets, ran, cmds,
          loads, orphanJoints, mass, ran_update_mass, addedForMass, ldtkReady,
          gridBlocks, isNeighbour, testAsserts,
          bodies, shockwave,
          frost, despawned, panicked, frostAssets>>

\* ---------------------------------------------------------- Grid Indexer

\* The quotient truncated instead of rounded.
CellCountTruncated(size) == size \div grid_cell_size

\* (size / 16.0).round() as i32 for a non-negative size: f32::round rounds
\* half away from zero.
CellCount(size) == (2 * size + grid_cell_size) \div (2 * grid_cell_size)

\* The loops with the rows counted upwards from the origin row.
RectangleCellsUpwards(top_left, block_size) ==
    { <<cx, cy>> \in ((top_left.x)..(top_left.x + CellCount(block_size.w) - 1))
                      \X ((top_left.y)..(top_left.y + CellCount(block_size.h) - 1)) : TRUE }

\* The cells the two loops of insert_rectangle_into_map visit.
RectangleCells(top_left, block_size) ==
    LET cells_wide == CellCount(block_size.w)
        cells_high == CellCount(block_size.h)
    IN  { <<cx, cy>> \in ((top_left.x)..(top_left.x + cells_wide - 1))
                          \X ((top_left.y - cells_high + 1)..(top_left.y)) : TRUE }

\* HashMap::insert on every visited cell: a later insert replaces the entry.
insert_rectangle_into_map(map, top_left, entity, block_size) ==
    LET cells == RectangleCells(top_left, block_size)
    IN  [c \in (DOMAIN map) \cup cells |->
            IF c \in cells THEN [entity |-> entity, block_size |-> block_size]
            ELSE map[c]]

GridCoordsOf(lv, b) == [x |-> lv[b].x, y |-> lv[b].y]
BlockSizeOf(lv, b) == [w |-> lv[b].w, h |-> lv[b].h]

\* First pass of create_mortar_joints over the first n blocks of the query.
RECURSIVE global_grid(_, _)
global_grid(lv, n) ==
    IF n = 0 THEN << >>
    ELSE IF n \in despawned THEN global_grid(lv, n - 1) \* the entity is gone
    ELSE insert_rectangle_into_map(global_grid(lv, n - 1), GridCoordsOf(lv, n), n,
                                   BlockSizeOf(lv, n))

\* -------------------------------------------- Anchor Calculator, Joint Builder

\* The anchor scaled by the whole block size instead of half of it.
calculate_anchor_unhalved(direction, block_size) ==
    << direction[1] * block_size.w, direction[2] * block_size.h >>

\* direction is one of the unit vectors of directions, so normalize_or_zero
\* leaves it unchanged; the level's sizes are even, so the halving is exact.
calculate_anchor(direction, block_size) ==
    << (direction[1] * block_size.w) \div 2, (direction[2] * block_size.h) \div 2 >>

\* The condition under which calculate_anchor logs its warning.
anchor_out_of_range(result, block_size) ==
    \/ 2 * result[1] > block_size.w
    \/ 2 * result[1] < -block_size.w
    \/ 2 * result[2] > block_size.h
    \/ 2 * result[2] < -block_size.h

\* The joint with its second anchor not negated.
create_joint_same_side(entity1, entity2, connection, block_size_one, block_size_two) ==
    [entity1 |-> entity1, entity2 |-> entity2,
     local_anchor_1 |-> calculate_anchor(connection, block_size_one),
     local_anchor_2 |-> calculate_anchor(connection, block_size_two)]

create_joint(entity1, entity2, connection, block_size_one, block_size_two) ==
    LET anchor_point_one == calculate_anchor(connection, block_size_one)
        a2 == calculate_anchor(connection, block_size_two)
        anchor_point_two == << -a2[1], -a2[2] >>
    IN  [entity1 |-> entity1, entity2 |-> entity2,
         local_anchor_1 |-> anchor_point_one, local_anchor_2 |-> anchor_point_two]

\* ------------------------------------------------------ Adjacency Resolver

\* The cell probed from a block: its own GridCoords plus the direction.
ProbeCell(coordinate, dir) == << coordinate.x + dir[1], coordinate.y + dir[2] >>

\* The second pass without its test neighbor == castle_entity.
RECURSIVE ProbeJointsNoSelfSkip(_, _, _, _)
ProbeJointsNoSelfSkip(lv, grid, castle_entity, n) ==
    IF n = 0 THEN << >>
    ELSE LET dir == directions[n]
             potential_neighbor == ProbeCell(GridCoordsOf(lv, castle_entity), dir)
             rest == ProbeJointsNoSelfSkip(lv, grid, castle_entity, n - 1)
         IN  IF potential_neighbor \in DOMAIN grid
             THEN Append(rest,
                      [op |-> "spawn",
                       joint |-> create_joint(castle_entity, grid[potential_neighbor].entity, dir,
                                              BlockSizeOf(lv, castle_entity),
                                              grid[potential_neighbor].block_size)])
             ELSE rest

\* The spawn commands one block of the second pass queues for the first n
\* directions, in the order of the array.
RECURSIVE ProbeJoints(_, _, _, _)
ProbeJoints(lv, grid, castle_entity, n) ==
    IF n = 0 THEN << >>
    ELSE LET dir == directions[n]
             potential_neighbor == ProbeCell(GridCoordsOf(lv, castle_entity), dir)
             rest == ProbeJoints(lv, grid, castle_entity, n - 1)
         IN  IF potential_neighbor \in DOMAIN grid
             THEN LET neighbor == grid[potential_neighbor].entity
                      block_size == grid[potential_neighbor].block_size
                  IN  IF neighbor = castle_entity
                      THEN rest \* Skip self-reference
                      ELSE Append(rest,
                               [op |-> "spawn",
                                joint |-> create_joint(castle_entity, neighbor, dir,
                                                       BlockSizeOf(lv, castle_entity),
                                                       block_size)])
             ELSE rest

\* Second pass of create_mortar_joints over the first n blocks of block_coords.
RECURSIVE MortarCommands(_, _, _)
MortarCommands(lv, grid, n) ==
    IF n = 0 THEN << >>
    ELSE IF n \in despawned THEN MortarCommands(lv, grid, n - 1) \* the entity is gone
    ELSE MortarCommands(lv, grid, n - 1) \o ProbeJoints(lv, grid, n, Len(directions))

\* A pass that skips only while no castle block exists: no latch, and the
\* query filter With<CastleBlock> in place of Added<CastleBlock>.
MortarPassSkippedOnlyWithoutBlocks == ~spawned

\* The two early returns of create_mortar_joints: the latch is set, or the
\* query Added<CastleBlock> is empty.
MortarPassSkipped == ran_mortar_joints \/ addedCastleBlock = {}

\* --------------------------------------------------------- Mass assignment

\* The two early returns of update_castle_mass.
MassPassSkipped == ran_update_mass \/ addedForMass = {}

\* The inserts update_castle_mass queues over the first n entities of its query.
RECURSIVE MassCommands(_)
MassCommands(n) ==
    IF n = 0 THEN << >>
    ELSE LET rest == MassCommands(n - 1)
         IN  IF n \in addedForMass \ despawned
             THEN Append(rest, [op |-> "insert_mass", entity |-> n, mass |-> CASTLE_MASS])
             ELSE rest

\* ------------------------------------------------- Impulse-Driven Fracture

\* impulse_magnitude > BREAKING_IMPULSE_THRESHOLD
ExceedsThreshold(impulse_magnitude) == impulse_magnitude > BREAKING_IMPULSE_THRESHOLD

\* The filter with Added<ShockwaveHit> weakened to With<ShockwaveHit>.
WithShockwaveHit == { b \in Blocks : spawned /\ hit[b] # NoHit }

\* What the filter (With<CastleBlock>, Added<ShockwaveHit>) selects.
AddedShockwaveHit == { b \in Blocks : spawned /\ hit[b] # NoHit /\ b \in hitAdded }

\* The entities castle_query yields: it also fetches &Children, so an entity
\* without that component is not yielded.
castle_query == { b \in AddedShockwaveHit : children[b] # << >> }

\* The commands the loop body queues for one block.
ImpulseCommands(castle_entity) ==
    LET child_joints == children[castle_entity]
        despawns == IF ExceedsThreshold(hit[castle_entity])
                    THEN [i \in 1..Len(child_joints) |->
                             [op |-> "despawn", entity |-> child_joints[i]]]
                    ELSE << >>
    IN  Append(despawns, [op |-> "remove_hit", entity |-> castle_entity])

\* A handler that answers a breaking impulse by despawning every joint entity.
DespawnEveryJoint(n) ==
    IF \E b \in AddedShockwaveHit : ExceedsThreshold(hit[b])
    THEN [i \in 1..(nextEntity - NumBlocks - 1) |-> [op |-> "despawn", entity |-> NumBlocks + i]]
    ELSE << >>

\* The commands one run of handle_castle_impulses queues over the first n entities.
RECURSIVE CastleCommands(_)
CastleCommands(n) ==
    IF n = 0 THEN << >>
    ELSE CastleCommands(n - 1) \o (IF n \in castle_query THEN ImpulseCommands(n) ELSE << >>)

\* ---------------------------------------------------------------- shockwave

\* What one explosion leaves on each block: NoHit for a block out of range.
Explosions == [Blocks -> {NoHit} \cup Impulses]

\* The most fireballs that collide in one tick of a volley.
MaxVolley == 2

\* The explosions that reach at most one block.
ExplosionsOnOneBlock ==
    { e \in Explosions : Cardinality({ b \in Blocks : e[b] # NoHit }) <= 1 }

\* The inserts apply_explosion_shockwave queues for the first n bodies.
RECURSIVE apply_explosion_shockwave(_, _)
apply_explosion_shockwave(explosion, n) ==
    IF n = 0 THEN << >>
    ELSE LET rest == apply_explosion_shockwave(explosion, n - 1)
         IN  IF explosion[n] # NoHit /\ n \notin despawned
             THEN Append(rest, [op |-> "insert_hit", entity |-> n, impulse |-> explosion[n]])
             ELSE rest

\* The inserts queued for the fireballs of one run, fireball after fireball.
RECURSIVE FireballCommands(_, _)
FireballCommands(fireballs, n) ==
    IF n = 0 THEN << >>
    ELSE FireballCommands(fireballs, n - 1) \o apply_explosion_shockwave(fireballs[n], NumBlocks)

\* -------------------------------------------------------------------- frost

\* The most frostbolts that collide in one tick.
MaxFrostbolts == 1

MAX_FROST_STACKS == 4
NoFrost == -1

\* FrostEffect { magnitude: 1.0 }, what every Dynamic body within CONE_RADIUS gets.
RadiusMagnitude == 1

\* FROST_EFFECT_BASE * (1 - distance / CONE_RADIUS)^2, what a body inside the
\* cone angle gets on top: 200 * (1 - d / 128)^2 is 3 at a distance d of
\* about 112.
ConeMagnitude == 3

\* What one frostbolt does to each block: NoFrost out of the radius,
\* RadiusMagnitude within the radius and outside the cone angle, ConeMagnitude
\* inside the cone.
Frostbolts ==
    { f \in [Blocks -> {NoFrost, RadiusMagnitude, ConeMagnitude}] :
          Cardinality({ b \in Blocks : f[b] # NoFrost }) <= 1 }

\* The inserts one frostbolt queues for the first n bodies.
RECURSIVE FrostboltInserts(_, _)
FrostboltInserts(frostbolt, n) ==
    IF n = 0 THEN << >>
    ELSE LET rest == FrostboltInserts(frostbolt, n - 1)
             first == [op |-> "insert_frost", entity |-> n, magnitude |-> RadiusMagnitude]
             second == [op |-> "insert_frost", entity |-> n, magnitude |-> ConeMagnitude]
         IN  IF frostbolt[n] = NoFrost \/ n \in despawned THEN rest
             ELSE IF frostbolt[n] = ConeMagnitude THEN rest \o << first, second >>
             ELSE Append(rest, first)

\* The inserts queued for the frostbolts of one run, frostbolt after frostbolt.
RECURSIVE FrostboltCommands(_, _)
FrostboltCommands(frostbolts, n) ==
    IF n = 0 THEN << >>
    ELSE FrostboltCommands(frostbolts, n - 1) \o FrostboltInserts(frostbolts[n], NumBlocks)

\* What frost_query yields: the castle blocks with a FrostEffect.
frost_query == { b \in Blocks : spawned /\ b \notin despawned /\ frost[b] # NoFrost }

\* What adjacent_query yields: the castle blocks without a FrostEffect.
adjacent_query == { b \in Blocks : spawned /\ b \notin despawned /\ frost[b] = NoFrost }

\* The inserts of the spreading loops over the first k pairs (frostbitten,
\* adjacent), frostbitten entity after frostbitten entity: spread holds the
\* pairs that are within SPREAD_RADIUS and whose random draw succeeded.
RECURSIVE SpreadCommands(_, _)
SpreadCommands(spread, k) ==
    IF k = 0 THEN << >>
    ELSE LET frostbitten_entity == ((k - 1) \div NumBlocks) + 1
             adjacent_entity == ((k - 1) % NumBlocks) + 1
             rest == SpreadCommands(spread, k - 1)
         IN  IF <<frostbitten_entity, adjacent_entity>> \in spread
             THEN Append(rest, [op |-> "insert_frost", entity |-> adjacent_entity,
                                magnitude |-> frost[frostbitten_entity] + 1])
             ELSE rest

\* entities_to_despawn over the first n entities: those whose incremented
\* magnitude reaches MAX_FROST_STACKS, and the despawn queued for each.
RECURSIVE entities_to_despawn(_)
entities_to_despawn(n) ==
    IF n = 0 THEN << >>
    ELSE LET rest == entities_to_despawn(n - 1)
         IN  IF n \in frost_query /\ frost[n] + 1 >= MAX_FROST_STACKS
             THEN Append(rest, [op |-> "despawn_block", entity |-> n])
             ELSE rest

\* ------------------------------------------------------ deferred commands

RemoveAll(seq, e) == SelectSeq(seq, LAMBDA x : x # e)

\* World::despawn: the entity is gone, and with it its place in any Children.
\* Despawning an entity that is already gone changes nothing (a warning).
Despawn(w, e) ==
    [w EXCEPT !.joints = { j \in w.joints : j.id # e },
              !.children = [b \in Blocks |-> RemoveAll(w.children[b], e)]]

\* World::despawn of a castle block: the entity is gone with its components.
\* A FixedJoint is an entity of its own and stays.
DespawnBlock(w, e) ==
    [w EXCEPT !.despawned = w.despawned \cup {e},
              !.frost[e] = NoFrost,
              !.hit[e] = NoHit,
              !.evaluations[e] = 0,
              !.hitAdded = w.hitAdded \ {e},
              !.mass[e] = DefaultMass,
              !.children[e] = << >>]

\* The commands that insert a component on a castle block.
InsertOps == {"insert_hit", "insert_mass", "insert_frost"}

\* One queued command applied to the world w.
ApplyCommand(w, c) ==
    IF c.op \in InsertOps /\ c.entity \in w.despawned
    THEN \* EntityCommands::insert on an entity that does not exist panics
         [w EXCEPT !.panicked = TRUE]
    ELSE
    CASE c.op = "spawn" ->
            [w EXCEPT !.joints = w.joints \cup
                          { [id |-> w.nextEntity, entity1 |-> c.joint.entity1,
                             entity2 |-> c.joint.entity2,
                             local_anchor_1 |-> c.joint.local_anchor_1,
                             local_anchor_2 |-> c.joint.local_anchor_2] },
                      !.nextEntity = w.nextEntity + 1]
      [] c.op = "insert_hit" ->
            \* insert of a component the entity already has replaces the value
            \* and leaves its added tick alone
            [w EXCEPT !.hit[c.entity] = c.impulse,
                      !.evaluations[c.entity] = 0,
                      !.hitAdded = IF w.hit[c.entity] = NoHit
                                   THEN w.hitAdded \cup {c.entity} ELSE w.hitAdded]
      [] c.op = "remove_hit" ->
            [w EXCEPT !.hit[c.entity] = NoHit,
                      !.evaluations[c.entity] = 0,
                      !.hitAdded = w.hitAdded \ {c.entity}]
      [] c.op = "despawn" -> Despawn(w, c.entity)
      [] c.op = "insert_mass" -> [w EXCEPT !.mass[c.entity] = c.mass]
      [] c.op = "insert_frost" -> [w EXCEPT !.frost[c.entity] = c.magnitude]
      [] c.op = "despawn_block" ->
            IF c.entity \in w.despawned THEN w ELSE DespawnBlock(w, c.entity)

RECURSIVE ApplyQueue(_, _)
ApplyQueue(w, q) ==
    IF q = << >> THEN w ELSE ApplyQueue(ApplyCommand(w, Head(q)), Tail(q))

World == [joints |-> joints, nextEntity |-> nextEntity, children |-> children,
          evaluations |-> evaluations, hit |-> hit, hitAdded |-> hitAdded, mass |-> mass,
          frost |-> frost, despawned |-> despawned, panicked |-> panicked]

Systems == {SysMortar, SysFireball, SysCastle, SysMass, SysFrostbolt, SysFrostbite}

\* The orders in which the queues of the systems of S may be applied.
Orders(S) ==
    { o \in [1..Cardinality(S) -> S] : \A s \in S : \E i \in DOMAIN o : o[i] = s }

RECURSIVE ApplyInOrder(_, _, _)
ApplyInOrder(w, o, i) ==
    IF i > Len(o) THEN w ELSE ApplyInOrder(ApplyQueue(w, cmds[o[i]]), o, i + 1)

\* Every queue is applied, queue after queue in some order, and emptied.
Flush ==
    \E o \in Orders({ s \in Systems : cmds[s] # << >> }) :
        LET w == ApplyInOrder(World, o, 1)
        IN  /\ joints' = w.joints
            /\ nextEntity' = w.nextEntity
            /\ children' = w.children
            /\ evaluations' = w.evaluations
            /\ hit' = w.hit
            /\ hitAdded' = w.hitAdded
            /\ mass' = w.mass
            /\ frost' = w.frost
            /\ despawned' = w.despawned
            /\ panicked' = w.panicked
            /\ cmds' = [s \in Systems |-> << >>]

\* ------------------------------------------------- shockwave magnitudes

\* Number of bodies around the explosion.
NumBodies == 2

\* Lengths are in tenths of a world unit, so SHOCKWAVE_RADIUS is 2000 and
\* MIN_DISTANCE_SQUARED is 1; magnitudes are in 1/320 of an impulse unit, so
\* SHOCKWAVE_BASE_IMPULSE * (1 - distance / SHOCKWAVE_RADIUS)^2 is
\* 3 * (SHOCKWAVE_RADIUS - distance)^2, a whole number.
SHOCKWAVE_RADIUS == 2000
SHOCKWAVE_RADIUS_SQUARED == SHOCKWAVE_RADIUS * SHOCKWAVE_RADIUS
MIN_DISTANCE_SQUARED == 1
ImpulseScale == 320
SHOCKWAVE_BASE_IMPULSE == 7500 * 5 * ImpulseScale

\* vector_to_target: its component in the plane (along x) and its depth
\* (along z); each offset has a whole-number length.
Offsets ==
    { <<0, 0>>, <<1, 0>>, <<2, 0>>, <<1000, 0>>, <<600, 800>>, <<0, 1000>>,
      <<1999, 0>>, <<2000, 0>>, <<2001, 0>> }

RigidBodies == {"Dynamic", "Static", "Kinematic"}
Markers == {"None", "Fireball", "LightningState"}

Bodies == [rigid_body : RigidBodies, marker : Markers, vector_to_target : Offsets]

NoBodies == [i \in 1..NumBodies |->
                [rigid_body |-> "Static", marker |-> "None", vector_to_target |-> <<0, 0>>]]

\* The query filter (Without<Fireball>, Without<LightningState>).
dynamic_bodies_query(target) == target.marker = "None"

\* A test that lets every rigid body pass.
matches_any_body(target_rb) == TRUE

\* matches!(target_rb, RigidBody::Dynamic)
matches_dynamic(target_rb) == target_rb = "Dynamic"

length_squared(v) == v[1] * v[1] + v[2] * v[2]

\* f32::sqrt on the squares of whole numbers.
sqrt(distance_squared) == CHOOSE d \in 0..(2 * SHOCKWAVE_RADIUS) : d * d = distance_squared

\* What the loop body of apply_explosion_shockwave gives one body of the
\* query: the magnitude of the ShockwaveHit it inserts, or NoHit.
shockwave_impulse(target) ==
    IF ~matches_dynamic(target.rigid_body) THEN NoHit
    ELSE LET distance_squared == length_squared(target.vector_to_target)
         IN  IF distance_squared < SHOCKWAVE_RADIUS_SQUARED
                /\ distance_squared > MIN_DISTANCE_SQUARED
             THEN LET distance == sqrt(distance_squared)
                      \* direction_2d is the zero vector when the body lies
                      \* straight behind or before the explosion
                      direction_2d_is_zero == target.vector_to_target[1] = 0
                      \* 37500 * 320 / 2000^2 = 3
                      impulse_magnitude ==
                          (SHOCKWAVE_BASE_IMPULSE \div SHOCKWAVE_RADIUS_SQUARED)
                              * (SHOCKWAVE_RADIUS - distance) * (SHOCKWAVE_RADIUS - distance)
                  IN  IF direction_2d_is_zero THEN NoHit
                      ELSE IF impulse_magnitude <= 0 THEN NoHit
                      ELSE impulse_magnitude
             ELSE NoHit

\* ------------------------------------------------------------------ grid

\* Bounds of the Blocks is_neighbour is called on: corner coordinates in
\* 0..MaxCorner, normalised sizes in 1..MaxNormalisedSize.
MaxCorner == 2
MaxNormalisedSize == 2

\* struct Block; the coordinates and sizes are whole numbers, on which f32
\* subtraction, abs and == are exact.
Block(x, y, size_x, size_y) ==
    [top_left_corner |-> <<x, y>>, normalised_block_size_x |-> size_x,
     normalised_block_size_y |-> size_y, grid_cell_size |-> 16]

GridBlocks ==
    { Block(x, y, sx, sy) : x \in 0..MaxCorner, y \in 0..MaxCorner,
                            sx \in 1..MaxNormalisedSize, sy \in 1..MaxNormalisedSize }

\* f32::abs on whole numbers.
abs(d) == IF d < 0 THEN -d ELSE d

\* Block::is_neighbour.
is_neighbour(self, other) ==
    LET x_distance == abs(self.top_left_corner[1] - other.top_left_corner[1])
        y_distance == abs(self.top_left_corner[2] - other.top_left_corner[2])
        horizontal_neighbour ==
            x_distance = self.normalised_block_size_x /\ y_distance = 0
        vertical_neighbour ==
            y_distance = self.normalised_block_size_y /\ x_distance = 0
    IN  horizontal_neighbour \/ vertical_neighbour

\* The names of the two tests.
TestHorizontal == "are_blocks_neighbours_horizontal"
TestVertical == "are_blocks_neighbours_vertical"
Tests == {TestHorizontal, TestVertical}

\* The values of the two assertions of are_blocks_neighbours_horizontal.
horizontal_assertions ==
    LET block1 == Block(0, 1, 1, 1)
        block2 == Block(1, 1, 1, 1)
        block3 == Block(1, 2, 1, 1)
    IN  << is_neighbour(block1, block2), ~is_neighbour(block1, block3) >>

\* The values of the two assertions of are_blocks_neighbours_vertical.
vertical_assertions ==
    LET block1 == Block(0, 1, 1, 1)
        block2 == Block(0, 2, 1, 1)
        block3 == Block(0, 2, 1, 1)
    IN  << is_neighbour(block1, block2), ~is_neighbour(block1, block3) >>

NoBlocks == << Block(0, 0, 1, 1), Block(0, 0, 1, 1) >>
NoAnswers == << << >>, << >> >>
NoAsserts == [t \in Tests |-> << >>]

\* ------------------------------------------------------------------ state

\* The castle before the level is spawned.
InitCastle ==
    /\ spawned = FALSE
    /\ addedCastleBlock = {}
    /\ ran_mortar_joints = FALSE
    /\ joints = {}
    /\ nextEntity = NumBlocks + 1
    /\ castleJoints = [b \in Blocks |-> << >>]
    /\ children = [b \in Blocks |-> << >>]
    /\ evaluations = [b \in Blocks |-> 0]
    /\ hit = [b \in Blocks |-> NoHit]
    /\ hitAdded = {}
    /\ explosionAssets = FALSE
    /\ ran = {}
    /\ cmds = [s \in Systems |-> << >>]
    /\ loads = 0
    /\ orphanJoints = {}
    /\ mass = [b \in Blocks |-> DefaultMass]
    /\ ran_update_mass = FALSE
    /\ addedForMass = {}
    /\ ldtkReady = FALSE
    /\ frost = [b \in Blocks |-> NoFrost]
    /\ despawned = {}
    /\ panicked = FALSE
    /\ frostAssets = FALSE

\* No call of Block::is_neighbour is under way and no test has run.
InitGridIdle ==
    /\ gridBlocks = NoBlocks
    /\ isNeighbour = NoAnswers
    /\ testAsserts = NoAsserts

\* No explosion among free bodies is under way.
InitShockwaveIdle ==
    /\ bodies = NoBodies
    /\ shockwave = << >>

InitWorld == InitCastle /\ InitGridIdle /\ InitShockwaveIdle

\* Any level data within the bounds.
InitBuild ==
    /\ level \in [Blocks -> BlockData]
    /\ InitWorld

\* A horizontal and a vertical chain of one-cell blocks, each touching the next.
RowChain == [b \in Blocks |-> [x |-> b - 1, y |-> 0, w |-> grid_cell_size, h |-> grid_cell_size]]
ColumnChain == [b \in Blocks |-> [x |-> 0, y |-> 1 - b, w |-> grid_cell_size, h |-> grid_cell_size]]

Init ==
    /\ level \in {RowChain, ColumnChain}
    /\ InitWorld

\* A two-cell-square block with a one-cell block to its left and one below that.
MixedCastle ==
    [b \in Blocks |->
        IF b = 2 THEN [x |-> 1, y |-> 1, w |-> 2 * grid_cell_size, h |-> 2 * grid_cell_size]
        ELSE [x |-> 0, y |-> IF b = 1 THEN 1 ELSE 0, w |-> grid_cell_size, h |-> grid_cell_size]]

\* A row of equal blocks of any size of IndexSizes, one cell or three cells
\* from one origin to the next.
InitIndex ==
    /\ \E W \in IndexSizes : \E H \in IndexSizes : \E step \in {1, 3} :
          level = [b \in Blocks |-> [x |-> step * (b - 1), y |-> 0, w |-> W, h |-> H]]
    /\ InitWorld

\* One-cell blocks on pairwise distinct cells of the grid: rows, columns,
\* corners, scattered blocks.
InitGrid ==
    /\ level \in { lv \in [Blocks -> [x : 0..MaxX, y : 0..MaxY,
                                       w : {grid_cell_size}, h : {grid_cell_size}]] :
                      \A a, b \in Blocks : a # b => <<lv[a].x, lv[a].y>> # <<lv[b].x, lv[b].y>> }
    /\ InitWorld

InitLoad ==
    /\ level \in {RowChain, ColumnChain, MixedCastle}
    /\ InitWorld

\* ---------------------------------------------------------------- actions

\* The level plugin spawns the castle entities of the level, one CastleBundle each.
LdtkSpawn ==
    /\ ~panicked
    /\ ~spawned
    /\ loads < MaxLoads
    /\ loads' = loads + 1
    /\ spawned' = TRUE
    /\ addedCastleBlock' = Blocks
    /\ addedForMass' = Blocks
    /\ UNCHANGED <<level, ran_mortar_joints, joints, nextEntity, castleJoints, children,
                   evaluations, hit, hitAdded, explosionAssets, ran, cmds,
                   orphanJoints, mass, ran_update_mass, ldtkReady,
                   gridBlocks, isNeighbour, testAsserts, bodies, shockwave,
                   frost, despawned, panicked, frostAssets>>

\* The asset server finishes loading ExplosionAssets and inserts the resource.
LoadExplosionAssets ==
    /\ ~panicked
    /\ ~explosionAssets
    /\ explosionAssets' = TRUE
    /\ UNCHANGED <<level, spawned, addedCastleBlock, ran_mortar_joints, joints, nextEntity,
                   castleJoints, children, evaluations, hit, hitAdded, ran, cmds,
                   loads, orphanJoints, mass, ran_update_mass, addedForMass, ldtkReady,
                   gridBlocks, isNeighbour, testAsserts, bodies, shockwave,
                   frost, despawned, panicked, frostAssets>>

\* The LdtkReady resource that gates update_castle_mass comes into existence;
\* castle.rs only tests for it, so it may appear at any time.
InsertLdtkReady ==
    /\ ~ldtkReady
    /\ ldtkReady' = TRUE
    /\ UNCHANGED <<level, spawned, addedCastleBlock, ran_mortar_joints, joints, nextEntity,
                   castleJoints, children, evaluations, hit, hitAdded, explosionAssets, ran,
                   cmds, loads, orphanJoints, mass, ran_update_mass, addedForMass,
                   gridBlocks, isNeighbour, testAsserts, bodies, shockwave,
                   frost, despawned, panicked, frostAssets>>

\* The Gameplay screen is left between two frames: the level entity and all
\* its descendants, the castle blocks among them, are despawned with their
\* components.  The FixedJoint entities are no descendants of the level.
UnloadLevel ==
    /\ spawned
    /\ ran = {}
    /\ \A s \in Systems : cmds[s] = << >>
    /\ spawned' = FALSE
    /\ addedCastleBlock' = {}
    /\ addedForMass' = {}
    /\ orphanJoints' = orphanJoints \cup joints
    /\ joints' = {}
    /\ castleJoints' = [b \in Blocks |-> << >>]
    /\ children' = [b \in Blocks |-> << >>]
    /\ evaluations' = [b \in Blocks |-> 0]
    /\ hit' = [b \in Blocks |-> NoHit]
    /\ hitAdded' = {}
    /\ mass' = [b \in Blocks |-> DefaultMass]
    /\ frost' = [b \in Blocks |-> NoFrost]
    /\ despawned' = {}
    /\ UNCHANGED <<level, ran_mortar_joints, nextEntity, explosionAssets, ran, cmds, loads,
                   ran_update_mass, ldtkReady, gridBlocks, isNeighbour, testAsserts,
                   bodies, shockwave, panicked, frostAssets>>

\* System update_castle_mass, one run.
update_castle_mass ==
    /\ ldtkReady
    /\ SysMass \notin ran
    /\ ran' = ran \cup {SysMass}
    /\ addedForMass' = {}
    /\ IF MassPassSkipped
       THEN UNCHANGED <<ran_update_mass, cmds>>
       ELSE /\ cmds' = [cmds EXCEPT ![SysMass] = @ \o MassCommands(NumBlocks)]
            /\ ran_update_mass' = TRUE
    /\ UNCHANGED <<level, spawned, addedCastleBlock, ran_mortar_joints, joints, nextEntity,
                   castleJoints, children, evaluations, hit, hitAdded, explosionAssets,
                   loads, orphanJoints, mass, ldtkReady, gridBlocks, isNeighbour, testAsserts,
                   bodies, shockwave, frost, despawned, panicked, frostAssets>>

\* The system with its latch set by every run that gets past the latch test,
\* whether or not the query held a block.
create_mortar_joints_latching_when_empty ==
    /\ SysMortar \notin ran
    /\ ran' = ran \cup {SysMortar}
    /\ addedCastleBlock' = {}
    /\ ran_mortar_joints' = TRUE
    /\ cmds' = [cmds EXCEPT ![SysMortar] =
                    IF MortarPassSkipped THEN @
                    ELSE @ \o MortarCommands(level, global_grid(level, NumBlocks), NumBlocks)]
    /\ UNCHANGED <<level, spawned, joints, nextEntity, castleJoints, children, evaluations,
                   hit, hitAdded, explosionAssets,
                   loads, orphanJoints, mass, ran_update_mass, addedForMass, ldtkReady,
                   gridBlocks, isNeighbour, testAsserts, bodies, shockwave,
                   frost, despawned, panicked, frostAssets>>

\* System create_mortar_joints, one run.
create_mortar_joints ==
    /\ ~panicked
    /\ SysMortar \notin ran
    /\ ran' = ran \cup {SysMortar}
    /\ addedCastleBlock' = {}
    /\ IF MortarPassSkipped
       THEN UNCHANGED <<ran_mortar_joints, cmds>>
       ELSE /\ cmds' = [cmds EXCEPT ![SysMortar] =
                            @ \o MortarCommands(level, global_grid(level, NumBlocks), NumBlocks)]
            /\ ran_mortar_joints' = TRUE
    /\ UNCHANGED <<level, spawned, joints, nextEntity, castleJoints, children, evaluations,
                   hit, hitAdded, explosionAssets,
                   loads, orphanJoints, mass, ran_update_mass, addedForMass, ldtkReady,
                   gridBlocks, isNeighbour, testAsserts, bodies, shockwave,
                   frost, despawned, panicked, frostAssets>>

\* System fireball_collisions, one run, with at most `most` colliding
\* fireballs whose explosions are among `explosions`: every fireball that
\* touches something explodes.  Nothing is in range of an explosion before
\* the castle exists.
fireball_collisions_among(most, explosions) ==
    /\ explosionAssets
    /\ SysFireball \notin ran
    /\ ran' = ran \cup {SysFireball}
    /\ \E k \in 0..most : \E fireballs \in [1..k -> explosions] :
          /\ spawned \/ k = 0
          /\ cmds' = [cmds EXCEPT ![SysFireball] = @ \o FireballCommands(fireballs, k)]
    /\ UNCHANGED <<level, spawned, addedCastleBlock, ran_mortar_joints, joints, nextEntity,
                   castleJoints, children, evaluations, hit, hitAdded, explosionAssets,
                   loads, orphanJoints, mass, ran_update_mass, addedForMass, ldtkReady,
                   gridBlocks, isNeighbour, testAsserts, bodies, shockwave,
                   frost, despawned, panicked, frostAssets>>

\* System fireball_collisions, one run.
fireball_collisions == fireball_collisions_among(MaxFireballs, Explosions)

\* System fireball_collisions, one run in which up to MaxVolley fireballs
\* collide, each explosion reaching at most one block.
fireball_volley == fireball_collisions_among(MaxVolley, ExplosionsOnOneBlock)

\* System fireball_collisions, one run in which no fireball collides.
fireball_collisions_idle == fireball_collisions_among(0, Explosions)

\* System handle_castle_impulses, one run.
handle_castle_impulses ==
    /\ explosionAssets
    /\ SysCastle \notin ran
    /\ ran' = ran \cup {SysCastle}
    /\ cmds' = [cmds EXCEPT ![SysCastle] = @ \o CastleCommands(NumBlocks)]
    /\ evaluations' = [b \in Blocks |->
                          IF b \in AddedShockwaveHit THEN evaluations[b] + 1
                          ELSE evaluations[b]]
    /\ hitAdded' = {}
    /\ UNCHANGED <<level, spawned, addedCastleBlock, ran_mortar_joints, joints, nextEntity,
                   castleJoints, children, hit, explosionAssets,
                   loads, orphanJoints, mass, ran_update_mass, addedForMass, ldtkReady,
                   gridBlocks, isNeighbour, testAsserts, bodies, shockwave,
                   frost, despawned, panicked, frostAssets>>

\* The asset server finishes loading FrostAssets and inserts the resource.
LoadFrostAssets ==
    /\ ~panicked
    /\ ~frostAssets
    /\ frostAssets' = TRUE
    /\ UNCHANGED <<level, spawned, addedCastleBlock, ran_mortar_joints, joints, nextEntity,
                   castleJoints, children, evaluations, hit, hitAdded, explosionAssets, ran,
                   cmds, loads, orphanJoints, mass, ran_update_mass, addedForMass, ldtkReady,
                   gridBlocks, isNeighbour, testAsserts, bodies, shockwave,
                   frost, despawned, panicked>>

\* System frostbolt_collisions, one run: every frostbolt that touches
\* something bursts.  It takes Res<FrostAssets>.
frostbolt_collisions ==
    /\ ~panicked
    /\ explosionAssets /\ frostAssets
    /\ SysFrostbolt \notin ran
    /\ ran' = ran \cup {SysFrostbolt}
    /\ \E k \in 0..MaxFrostbolts : \E frostbolts \in [1..k -> Frostbolts] :
          /\ spawned \/ k = 0
          /\ cmds' = [cmds EXCEPT ![SysFrostbolt] = @ \o FrostboltCommands(frostbolts, k)]
    /\ UNCHANGED <<level, spawned, addedCastleBlock, ran_mortar_joints, joints, nextEntity,
                   castleJoints, children, evaluations, hit, hitAdded, explosionAssets,
                   loads, orphanJoints, mass, ran_update_mass, addedForMass, ldtkReady,
                   gridBlocks, isNeighbour, testAsserts, bodies, shockwave,
                   frost, despawned, panicked, frostAssets>>

\* System apply_frostbite, one run.  Before FrostAssets exists no frostbolt
\* has burst and no block carries a FrostEffect, so a run changes nothing.
apply_frostbite ==
    /\ ~panicked
    /\ explosionAssets /\ frostAssets
    /\ SysFrostbite \notin ran
    /\ ran' = ran \cup {SysFrostbite}
    /\ \E finished \in BOOLEAN :
          IF ~finished
          THEN UNCHANGED <<frost, cmds>>
          ELSE \E spread \in SUBSET (frost_query \X adjacent_query) :
                  /\ cmds' = [cmds EXCEPT ![SysFrostbite] =
                                  @ \o SpreadCommands(spread, NumBlocks * NumBlocks)
                                    \o entities_to_despawn(NumBlocks)]
                  /\ frost' = [b \in Blocks |->
                                   IF b \in frost_query THEN frost[b] + 1 ELSE frost[b]]
    /\ UNCHANGED <<level, spawned, addedCastleBlock, ran_mortar_joints, joints, nextEntity,
                   castleJoints, children, evaluations, hit, hitAdded, explosionAssets,
                   loads, orphanJoints, mass, ran_update_mass, addedForMass, ldtkReady,
                   gridBlocks, isNeighbour, testAsserts, bodies, shockwave,
                   despawned, panicked, frostAssets>>

\* The systems whose run conditions hold.
RunnableSystems ==
    {SysMortar} \cup (IF explosionAssets THEN {SysFireball, SysCastle} ELSE {})
                \cup (IF ldtkReady THEN {SysMass} ELSE {})
                \cup (IF explosionAssets /\ frostAssets THEN {SysFrostbolt, SysFrostbite}
                      ELSE {})

\* A sync point inside the frame.
ApplyDeferred ==
    /\ ~panicked
    /\ \E s \in Systems : cmds[s] # << >>
    /\ Flush
    /\ UNCHANGED <<level, spawned, addedCastleBlock, ran_mortar_joints, castleJoints,
                   explosionAssets, ran,
                   loads, orphanJoints, ran_update_mass, addedForMass, ldtkReady,
                   gridBlocks, isNeighbour, testAsserts, bodies, shockwave, frostAssets>>

\* The end of the frame: what is still queued is applied.
EndFrame ==
    /\ ~panicked
    /\ RunnableSystems \subseteq ran
    /\ Flush
    /\ ran' = {}
    /\ UNCHANGED <<level, spawned, addedCastleBlock, ran_mortar_joints, castleJoints,
                   explosionAssets,
                   loads, orphanJoints, ran_update_mass, addedForMass, ldtkReady,
                   gridBlocks, isNeighbour, testAsserts, bodies, shockwave, frostAssets>>

NextBuild == LdtkSpawn \/ create_mortar_joints \/ ApplyDeferred \/ EndFrame

SpecBuild == InitBuild /\ [][NextBuild]_vars

\* The same systems on levels of uniform one-cell blocks.
SpecGrid == InitGrid /\ [][NextBuild]_vars

\* The same systems on levels whose sizes need not be whole numbers of cells.
SpecIndex == InitIndex /\ [][NextBuild]_vars

Next ==
    \/ LdtkSpawn
    \/ LoadExplosionAssets
    \/ create_mortar_joints
    \/ fireball_collisions
    \/ handle_castle_impulses
    \/ ApplyDeferred
    \/ EndFrame

Spec == Init /\ [][Next]_vars

\* The castle of a row of blocks under frostbolts and frostbite, while no
\* fireball is cast.
InitFrost ==
    /\ level = RowChain
    /\ InitWorld

NextFrost ==
    \/ LdtkSpawn
    \/ LoadExplosionAssets
    \/ LoadFrostAssets
    \/ create_mortar_joints
    \/ fireball_collisions_idle
    \/ handle_castle_impulses
    \/ frostbolt_collisions
    \/ apply_frostbite
    \/ ApplyDeferred
    \/ EndFrame

SpecFrost == InitFrost /\ [][NextFrost]_vars

\* The castle of a row of blocks under volleys of fireballs.
InitBlast ==
    /\ level = RowChain
    /\ InitWorld

NextBlast ==
    \/ LdtkSpawn
    \/ LoadExplosionAssets
    \/ create_mortar_joints
    \/ fireball_volley
    \/ handle_castle_impulses
    \/ ApplyDeferred
    \/ EndFrame

SpecBlast == InitBlast /\ [][NextBlast]_vars

\* The level is loaded, unloaded and loaded again while the two
\* initialization systems run every frame.
NextLoad ==
    \/ LdtkSpawn
    \/ UnloadLevel
    \/ InsertLdtkReady
    \/ create_mortar_joints
    \/ update_castle_mass
    \/ ApplyDeferred
    \/ EndFrame

SpecLoad == InitLoad /\ [][NextLoad]_vars

\* One call gridBlocks[i].is_neighbour(&gridBlocks[j]), j the other block.
CallIsNeighbour ==
    \E i \in 1..2 :
        /\ isNeighbour[i] = << >>
        /\ isNeighbour' = [isNeighbour EXCEPT ![i] = << is_neighbour(gridBlocks[i], gridBlocks[3 - i]) >>]
        /\ UNCHANGED <<level, spawned, addedCastleBlock, ran_mortar_joints, joints, nextEntity,
                       castleJoints, children, evaluations, hit, hitAdded, explosionAssets, ran,
                       cmds, loads, orphanJoints, mass, ran_update_mass, addedForMass, ldtkReady,
                       gridBlocks, testAsserts, bodies, shockwave,
                       frost, despawned, panicked, frostAssets>>

\* Test are_blocks_neighbours_horizontal runs: an assertion that fails ends it.
are_blocks_neighbours_horizontal ==
    /\ testAsserts[TestHorizontal] = << >>
    /\ testAsserts' = [testAsserts EXCEPT ![TestHorizontal] =
                           IF horizontal_assertions[1] THEN horizontal_assertions
                           ELSE << FALSE >>]
    /\ UNCHANGED <<level, spawned, addedCastleBlock, ran_mortar_joints, joints, nextEntity,
                   castleJoints, children, evaluations, hit, hitAdded, explosionAssets, ran,
                   cmds, loads, orphanJoints, mass, ran_update_mass, addedForMass, ldtkReady,
                   gridBlocks, isNeighbour, bodies, shockwave,
                   frost, despawned, panicked, frostAssets>>

\* Test are_blocks_neighbours_vertical runs: an assertion that fails ends it.
are_blocks_neighbours_vertical ==
    /\ testAsserts[TestVertical] = << >>
    /\ testAsserts' = [testAsserts EXCEPT ![TestVertical] =
                           IF vertical_assertions[1] THEN vertical_assertions
                           ELSE << FALSE >>]
    /\ UNCHANGED <<level, spawned, addedCastleBlock, ran_mortar_joints, joints, nextEntity,
                   castleJoints, children, evaluations, hit, hitAdded, explosionAssets, ran,
                   cmds, loads, orphanJoints, mass, ran_update_mass, addedForMass, ldtkReady,
                   gridBlocks, isNeighbour, bodies, shockwave,
                   frost, despawned, panicked, frostAssets>>

\* One explosion: apply_explosion_shockwave over the bodies of the query.
ApplyShockwave ==
    /\ shockwave = << >>
    /\ shockwave' = [i \in 1..NumBodies |->
                         IF dynamic_bodies_query(bodies[i]) THEN shockwave_impulse(bodies[i])
                         ELSE NoHit]
    /\ UNCHANGED <<level, spawned, addedCastleBlock, ran_mortar_joints, joints, nextEntity,
                   castleJoints, children, evaluations, hit, hitAdded, explosionAssets, ran,
                   cmds, loads, orphanJoints, mass, ran_update_mass, addedForMass, ldtkReady,
                   gridBlocks, isNeighbour, testAsserts, bodies,
                   frost, despawned, panicked, frostAssets>>

\* Any bodies around an explosion; the castle plays no part.
InitShockwave ==
    /\ level = RowChain
    /\ InitCastle
    /\ InitGridIdle
    /\ bodies \in [1..NumBodies -> Bodies]
    /\ shockwave = << >>

NextShockwave == ApplyShockwave

\* One explosion among bodies of every kind at every sampled distance.
SpecShockwave == InitShockwave /\ [][NextShockwave]_vars

\* Any two Blocks within the bounds; the castle plays no part.
InitNeighbour ==
    /\ level = RowChain
    /\ InitCastle
    /\ gridBlocks \in [1..2 -> GridBlocks]
    /\ isNeighbour = NoAnswers
    /\ testAsserts = NoAsserts
    /\ InitShockwaveIdle

NextNeighbour ==
    \/ CallIsNeighbour
    \/ are_blocks_neighbours_horizontal
    \/ are_blocks_neighbours_vertical

\* Block::is_neighbour called both ways round on any two Blocks, and its tests.
SpecNeighbour == InitNeighbour /\ [][NextNeighbour]_vars

\* ------------------------------------------------------------ joint building

\* The cells a block occupies in the coordinate map when it is indexed alone.
Occupied(b) == RectangleCells(GridCoordsOf(level, b), BlockSizeOf(level, b))

\* The world rectangles of blocks a and b intersect: each footprint starts at
\* the top-left corner of the block's origin cell and extends right and down.
FootprintsOverlap(a, b) ==
    LET left(p) == level[p].x * grid_cell_size
        top(p) == (level[p].y + 1) * grid_cell_size
    IN  /\ left(a) < left(b) + level[b].w
        /\ left(b) < left(a) + level[a].w
        /\ top(a) - level[a].h < top(b)
        /\ top(b) - level[b].h < top(a)

\* The level holds no two blocks whose footprints overlap.
NonOverlapping == \A a, b \in Blocks : a # b => ~FootprintsOverlap(a, b)

\* Some cell of a has a cell of b immediately to its right or immediately below.
TouchesRightOrBelow(a, b) ==
    \E c \in Occupied(a) : <<c[1] + 1, c[2]>> \in Occupied(b) \/ <<c[1], c[2] - 1>> \in Occupied(b)

JointsBetween(a, b) == { j \in joints : {j.entity1, j.entity2} = {a, b} }

\* The one-time pass has run and its spawn commands have been applied.
JointPassDone == ran_mortar_joints /\ cmds[SysMortar] = << >>

\* C1: after the joint-building pass on a level without overlapping blocks,
\* every two distinct blocks of which one has a cell immediately right of or
\* below a cell of the other are connected by a joint, whatever their sizes.
C1_AdjacentBlocksJoined ==
    (JointPassDone /\ NonOverlapping) =>
        \A a, b \in Blocks : (a # b /\ TouchesRightOrBelow(a, b)) => JointsBetween(a, b) # {}

\* C2: on a level without overlapping blocks no unordered pair of blocks is
\* ever connected by more than one joint.
C2_AtMostOneJointPerPair ==
    NonOverlapping =>
        \A a, b \in Blocks : a # b => Cardinality(JointsBetween(a, b)) <= 1

\* The pass has joined a two-cell-wide or two-cell-high block to a neighbour on
\* a level without overlap that also holds a block too small to occupy a cell.
C2_Witness ==
    /\ JointPassDone
    /\ NonOverlapping
    /\ \E a, b \in Blocks :
          /\ a # b
          /\ JointsBetween(a, b) # {}
          /\ Cardinality(Occupied(a)) >= 2
    /\ \E t \in Blocks : Occupied(t) = {}

\* ------------------------------------------------------------------ fracture

\* A step in which handle_castle_impulses runs.
HandlerStep == SysCastle \notin ran /\ SysCastle \in ran'

\* The joints with block b as an endpoint.
JointsOf(b) == { j \in joints : b \in {j.entity1, j.entity2} }

\* The blocks whose pending impulse event the running handler meets above the threshold.
BreakingHit == { b \in AddedShockwaveHit : hit[b] > BREAKING_IMPULSE_THRESHOLD }

Range(seq) == { seq[i] : i \in DOMAIN seq }

\* C3: when the handler runs over a block whose pending impulse event is above
\* the breaking threshold, what the run queues destroys every joint that has
\* the block as an endpoint.
C3_BreakingImpulseSeversBlock ==
    [][HandlerStep =>
          \A b \in BreakingHit :
              JointsOf(b) \cap ApplyQueue(World, cmds'[SysCastle]).joints = {}]_vars

\* C4: an impulse equal to the breaking threshold is a fracture: the run
\* removes every joint of the block, as for a magnitude above the threshold.
C4_ThresholdImpulseFractures ==
    [][HandlerStep =>
          \A b \in AddedShockwaveHit :
              hit[b] = BREAKING_IMPULSE_THRESHOLD =>
                  JointsOf(b) \cap ApplyQueue(World, cmds'[SysCastle]).joints = {}]_vars

\* C5: a run of the handler removes no joint between two blocks that carry no
\* breaking impulse, queues commands only for the blocks whose event it met
\* and their children, and evaluates no other block.
C5_FractureTouchesOnlyHitBlock ==
    [][HandlerStep =>
          LET q == cmds'[SysCastle]
          IN  /\ \A j \in joints :
                    {j.entity1, j.entity2} \cap BreakingHit = {}
                        => j \in ApplyQueue(World, q).joints
              /\ \A i \in DOMAIN q :
                    \/ q[i].op = "remove_hit" /\ q[i].entity \in AddedShockwaveHit
                    \/ q[i].op = "despawn"
                       /\ \E b \in BreakingHit : q[i].entity \in Range(children[b])
              /\ \A b \in Blocks \ AddedShockwaveHit : evaluations'[b] = evaluations[b]]_vars

\* The handler has met a breaking impulse on a block that has a joint while
\* another joint connects two other blocks, and that joint is still there.
C5_Witness ==
    /\ SysCastle \in ran
    /\ \E a \in Blocks :
          /\ hit[a] > BREAKING_IMPULSE_THRESHOLD
          /\ evaluations[a] = 1
          /\ JointsOf(a) # {}
          /\ \E j \in joints : a \notin {j.entity1, j.entity2}
          /\ \A b \in Blocks \ {a} : hit[b] = NoHit

\* C6: when the handler runs over a block whose only pending impulse event is
\* below the threshold, the joints stay as they are and the event is removed.
C6_BelowThresholdClearsEventOnly ==
    [][HandlerStep =>
          \A b \in Blocks :
              (AddedShockwaveHit = {b} /\ hit[b] < BREAKING_IMPULSE_THRESHOLD) =>
                  LET w == ApplyQueue(World, cmds'[SysCastle])
                  IN  w.joints = joints /\ w.hit[b] = NoHit]_vars

\* C7: no impulse event is met by more than one run of the handler.
C7_EventEvaluatedAtMostOnce == \A b \in Blocks : evaluations[b] <= 1

\* A new frame begins with the handler runnable and an impulse event on a
\* block that an earlier run has already met.
C7_Witness ==
    /\ ran = {}
    /\ explosionAssets
    /\ \E b \in Blocks : hit[b] # NoHit /\ evaluations[b] = 1

\* C8: an impulse event the handler has met is cleared from its block by the
\* end of that frame, whether or not the block has children.
C8_EventClearedByFrameEnd ==
    ran = {} => \A b \in Blocks : ~(hit[b] # NoHit /\ evaluations[b] > 0)

\* C9: every joint is registered with both blocks it connects, in the block's
\* children or in CastleBlock.joints.
C9_JointRegisteredOnBothBlocks ==
    \A j \in joints : \A e \in {j.entity1, j.entity2} :
        j.id \in Range(children[e]) \cup Range(castleJoints[e])

\* C10: when the handler meets breaking impulses on two blocks that share a
\* joint in one run, the run completes and the shared joint is gone afterwards,
\* as if it had been removed once.
C10_SharedJointRemovedOnce ==
    [][HandlerStep =>
          \A a, b \in BreakingHit :
              a # b => JointsBetween(a, b) \cap ApplyQueue(World, cmds'[SysCastle]).joints = {}]_vars

\* ------------------------------------------------------------ re-execution

\* A step in which create_mortar_joints runs.
MortarStep == SysMortar \notin ran /\ SysMortar \in ran'

\* C11: a run of the joint-building pass over blocks it has already joined
\* queues nothing, and once the joints of the first run exist no step adds,
\* removes or duplicates a joint.
C11_SecondPassLeavesJoints ==
    [][/\ (ran_mortar_joints /\ MortarStep) => cmds' = cmds
       /\ JointPassDone => joints' = joints]_vars

\* The frame in which the joints were built has ended with joints in place:
\* the system's next run meets the same blocks again.
C11_Witness ==
    /\ JointPassDone
    /\ joints # {}
    /\ ran = {}
    /\ addedCastleBlock = {}

\* The joints one execution of the pass over the level's blocks asks for.
PassJoints ==
    { c.joint : c \in Range(MortarCommands(level, global_grid(level, NumBlocks), NumBlocks)) }

\* A joint entity without its id.
JointData(j) ==
    [entity1 |-> j.entity1, entity2 |-> j.entity2,
     local_anchor_1 |-> j.local_anchor_1, local_anchor_2 |-> j.local_anchor_2]

\* The frame has ended and nothing is queued.
BetweenFrames == ran = {} /\ \A s \in Systems : cmds[s] = << >>

\* C12: once the blocks of the present level load have been met by the
\* initialization systems, they are joined as one execution of the pass joins
\* them, each joint once, and every block has its assigned mass; this holds
\* for the first load and for every later load.
C12_InitializedOncePerLoad ==
    /\ (spawned /\ BetweenFrames /\ addedCastleBlock = {}) =>
           /\ { JointData(j) : j \in joints } = PassJoints
           /\ Cardinality(joints) = Cardinality(PassJoints)
    /\ (spawned /\ BetweenFrames /\ ldtkReady /\ addedForMass = {}) =>
           \A b \in Blocks : mass[b] = CASTLE_MASS

\* ------------------------------------------------------------ grid indexing

\* C13: in the coordinate map the pass has built, a cell that several blocks
\* claim holds the block that was indexed first; no later block has replaced
\* an earlier one.
C13_EarlierOccupantKept ==
    ran_mortar_joints =>
        LET grid == global_grid(level, NumBlocks)
        IN  \A c \in DOMAIN grid :
                \A b \in Blocks : c \in Occupied(b) => grid[c].entity <= b

\* The cells the claim names for origin (ox, oy) and size W x H.
FootprintCells(ox, oy, W, H) ==
    { c \in ((ox - 1)..(ox + W \div grid_cell_size + 1)) \X ((oy - H \div grid_cell_size - 1)..(oy + 1)) :
        /\ ox <= c[1] /\ c[1] < ox + W \div grid_cell_size
        /\ oy - H \div grid_cell_size + 1 <= c[2] /\ c[2] <= oy }

WholeCells(b) == level[b].w % grid_cell_size = 0 /\ level[b].h % grid_cell_size = 0

\* C14: indexing a block whose width and height are multiples of 16 into an
\* empty map inserts exactly the cells from its origin column rightwards and
\* from its origin row downwards that its size covers, each mapped to the
\* block, and no other cell.
C14_IndexedCellsExact ==
    ran_mortar_joints =>
        \A b \in Blocks :
            WholeCells(b) =>
                LET map == insert_rectangle_into_map(<< >>, GridCoordsOf(level, b), b,
                                                     BlockSizeOf(level, b))
                IN  /\ DOMAIN map = FootprintCells(level[b].x, level[b].y, level[b].w, level[b].h)
                    /\ \A c \in DOMAIN map : map[c].entity = b

\* The pass has indexed a 32x16 block at origin (0,0), and a block two cells high.
C14_Witness ==
    /\ ran_mortar_joints
    /\ \E b \in Blocks :
          /\ level[b] = [x |-> 0, y |-> 0, w |-> 32, h |-> 16]
          /\ { <<0, 0>>, <<1, 0>> } \subseteq DOMAIN global_grid(level, b)
    /\ \E b \in Blocks : level[b].h = 32 /\ WholeCells(b)

\* The cells that indexing block b inserts into the map.
CellsOf(b) ==
    DOMAIN insert_rectangle_into_map(<< >>, GridCoordsOf(level, b), b, BlockSizeOf(level, b))

\* Block b is indexed as n columns and m rows, from its origin column
\* rightwards and from its origin row downwards (no cell when n or m is 0).
SpansCells(b, n, m) ==
    CellsOf(b) = ((level[b].x)..(level[b].x + n - 1)) \X ((level[b].y - m + 1)..(level[b].y))

\* C15: the number of columns and of rows a block is indexed as is the
\* truncating integer quotient of its width and of its height by 16.
C15_SpanIsTruncatedQuotient ==
    ran_mortar_joints =>
        \A b \in Blocks :
            SpansCells(b, level[b].w \div grid_cell_size, level[b].h \div grid_cell_size)

\* n is size / 16 rounded to the nearest whole number, a half rounded up.
NearestCellCount(n, size) ==
    /\ grid_cell_size * n - grid_cell_size \div 2 <= size
    /\ size < grid_cell_size * n + grid_cell_size \div 2

\* C15 (amended): the number of columns and of rows a block is indexed as
\* is its width and its height divided by 16 and rounded to the nearest whole
\* number, a half rounded up, by the same rule on both axes.
C15_SpanIsRoundedQuotient ==
    ran_mortar_joints =>
        \A b \in Blocks :
            \E n \in 0..(level[b].w \div grid_cell_size + 1) :
                \E m \in 0..(level[b].h \div grid_cell_size + 1) :
                    /\ NearestCellCount(n, level[b].w)
                    /\ NearestCellCount(m, level[b].h)
                    /\ SpansCells(b, n, m)

\* The pass has indexed a 24x40 block: two columns, three rows.
C15_Witness ==
    /\ ran_mortar_joints
    /\ \E b \in Blocks : /\ level[b].w = 24 /\ level[b].h = 40
                         /\ SpansCells(b, 2, 3)
                         /\ Cardinality(CellsOf(b)) = 6

\* ------------------------------------------------------------ uniform grids

Abs(i) == IF i < 0 THEN -i ELSE i

\* The origin cells of a and b share an edge.
EdgeNeighbours(a, b) == Abs(level[a].x - level[b].x) + Abs(level[a].y - level[b].y) = 1

\* The interior edges of the level: the pairs of blocks whose cells share an edge.
InteriorEdges == { e \in SUBSET Blocks : \E a, b \in e : e = {a, b} /\ EdgeNeighbours(a, b) }

\* The blocks fill a rectangle of n columns and m rows.
FillsGrid(n, m) ==
    \E ox \in 0..MaxX : \E oy \in 0..MaxY :
        { <<level[b].x, level[b].y>> : b \in Blocks } = (ox..(ox + n - 1)) \X (oy..(oy + m - 1))

QueuedJoints == { c.joint : c \in Range(cmds[SysMortar]) }

\* C17: no joint, spawned or queued to be spawned, has the same block at
\* both ends.
C17_NoSelfJoint ==
    /\ \A j \in joints : j.entity1 # j.entity2
    /\ \A j \in QueuedJoints : j.entity1 # j.entity2

\* A probe from block b lands on a cell that b itself holds.
ProbesItself(b) ==
    \E i \in DOMAIN directions :
        LET cell == ProbeCell(GridCoordsOf(level, b), directions[i])
            grid == global_grid(level, NumBlocks)
        IN  cell \in DOMAIN grid /\ grid[cell].entity = b

\* The pass is done on a level where a block has probed a cell of its own
\* and has been joined to another block.
C17_Witness ==
    /\ JointPassDone
    /\ \E b \in Blocks : ProbesItself(b) /\ JointsOf(b) # {}

\* The anchor lies in the box |x| <= width/2, |y| <= height/2 of a block of that size.
WithinHalfExtents(anchor, block_size) ==
    /\ 2 * Abs(anchor[1]) <= block_size.w
    /\ 2 * Abs(anchor[2]) <= block_size.h

Area(b) == level[b].w * level[b].h

\* C18: both local anchors of every joint, spawned or queued to be spawned,
\* lie within the half-extent box of their own block, and neither of the two
\* calls of calculate_anchor that made them met its warning condition.
C18_AnchorsWithinHalfExtents ==
    \A j \in joints \cup QueuedJoints :
        LET size1 == BlockSizeOf(level, j.entity1)
            size2 == BlockSizeOf(level, j.entity2)
        IN  /\ WithinHalfExtents(j.local_anchor_1, size1)
            /\ WithinHalfExtents(j.local_anchor_2, size2)
            /\ ~anchor_out_of_range(j.local_anchor_1, size1)
            /\ ~anchor_out_of_range(<< -j.local_anchor_2[1], -j.local_anchor_2[2] >>, size2)

\* Joints exist whose first block is the larger one and whose second block
\* is the larger one.
C18_Witness ==
    /\ JointPassDone
    /\ \E j \in joints : Area(j.entity1) > Area(j.entity2)
    /\ \E j \in joints : Area(j.entity1) < Area(j.entity2)

\* Block b is what the pass found in the cell next to a's origin cell in
\* direction dir.
FoundNextTo(a, dir, b) ==
    LET cell == ProbeCell(GridCoordsOf(level, a), dir)
        grid == global_grid(level, NumBlocks)
    IN  cell \in DOMAIN grid /\ grid[cell].entity = b

\* Joint j holds its first block by the midpoint of its right edge and its
\* second block, the right neighbour, by the midpoint of its left edge.
RightNeighbourJoint(j) ==
    /\ FoundNextTo(j.entity1, <<1, 0>>, j.entity2)
    /\ 2 * j.local_anchor_1[1] = level[j.entity1].w /\ j.local_anchor_1[2] = 0
    /\ 2 * j.local_anchor_2[1] = -level[j.entity2].w /\ j.local_anchor_2[2] = 0

\* Joint j holds its first block by the midpoint of its bottom edge and its
\* second block, the neighbour below, by the midpoint of its top edge.
DownNeighbourJoint(j) ==
    /\ FoundNextTo(j.entity1, <<0, -1>>, j.entity2)
    /\ j.local_anchor_1[1] = 0 /\ 2 * j.local_anchor_1[2] = -level[j.entity1].h
    /\ j.local_anchor_2[1] = 0 /\ 2 * j.local_anchor_2[2] = level[j.entity2].h

OneAxis(anchor) == (anchor[1] = 0) # (anchor[2] = 0)

\* C19: each anchor of every joint has exactly one non-zero component, and
\* the two anchors are the midpoints of the facing edges: right edge and left
\* edge for a right neighbour, bottom edge and top edge for a neighbour below.
C19_AnchorsAreEdgeMidpoints ==
    \A j \in joints \cup QueuedJoints :
        /\ OneAxis(j.local_anchor_1)
        /\ OneAxis(j.local_anchor_2)
        /\ RightNeighbourJoint(j) \/ DownNeighbourJoint(j)

\* A joint to a right neighbour of another width and a joint to a neighbour
\* below of another height exist.
C19_Witness ==
    /\ JointPassDone
    /\ \E j \in joints : RightNeighbourJoint(j) /\ level[j.entity1].w # level[j.entity2].w
    /\ \E j \in joints : DownNeighbourJoint(j) /\ level[j.entity1].h # level[j.entity2].h

\* ------------------------------------------------------------ mass

\* update_castle_mass has assigned block b its mass.
MassAssigned(b) == spawned /\ mass[b] # DefaultMass

\* C20: among the blocks that have been assigned their mass, a block of
\* larger area has a strictly larger mass, and a block of four times the
\* area (32x32 against 16x16) has twice the mass, as base_mass *
\* sqrt(area / reference_area) gives.
C20_MassGrowsWithArea ==
    \A a, b \in Blocks :
        (MassAssigned(a) /\ MassAssigned(b)) =>
            /\ Area(a) > Area(b) => mass[a] > mass[b]
            /\ Area(a) = 4 * Area(b) => mass[a] = 2 * mass[b]

\* ------------------------------------------------------------ empty ticks

\* A step in which update_castle_mass runs.
MassStep == SysMass \notin ran /\ SysMass \in ran'

\* C27: a run of create_mortar_joints or of update_castle_mass that meets no
\* newly added block queues nothing and leaves its latch as it was; a run
\* with the latch unset that meets newly added blocks queues the pass for
\* them and sets the latch.
C27_EmptyTickLeavesLatch ==
    [][/\ (MortarStep /\ addedCastleBlock = {}) =>
              (ran_mortar_joints' = ran_mortar_joints /\ cmds' = cmds)
       /\ (MortarStep /\ addedCastleBlock # {} /\ ~ran_mortar_joints) =>
              /\ ran_mortar_joints'
              /\ { c.joint : c \in Range(cmds'[SysMortar]) } = PassJoints
       /\ (MassStep /\ addedForMass = {}) =>
              (ran_update_mass' = ran_update_mass /\ cmds' = cmds)
       /\ (MassStep /\ addedForMass # {} /\ ~ran_update_mass) =>
              /\ ran_update_mass'
              /\ { c.entity : c \in Range(cmds'[SysMass]) } = addedForMass]_vars

\* Both systems have run in a frame before the blocks were spawned: the
\* blocks are there now, newly added, and both latches are still unset.
C27_Witness ==
    /\ {SysMortar, SysMass} \subseteq ran
    /\ spawned
    /\ addedCastleBlock = Blocks /\ ~ran_mortar_joints
    /\ addedForMass = Blocks /\ ~ran_update_mass

\* ------------------------------------------------------------ placement

\* Twice the world coordinates of the centre of the rectangle block b
\* occupies at level load: the rectangle starts at the top-left corner of the
\* origin cell and extends right and down by the block's size.
TwiceCentre(b) ==
    << 2 * level[b].x * grid_cell_size + level[b].w,
       2 * (level[b].y + 1) * grid_cell_size - level[b].h >>

\* C28: on a level whose blocks do not overlap, the two local anchors of
\* every joint denote the same world point: centre of block 1 plus anchor 1
\* equals centre of block 2 plus anchor 2.
C28_AnchorsMeetAtLoad ==
    NonOverlapping =>
        \A j \in joints :
            /\ TwiceCentre(j.entity1)[1] + 2 * j.local_anchor_1[1]
                   = TwiceCentre(j.entity2)[1] + 2 * j.local_anchor_2[1]
            /\ TwiceCentre(j.entity1)[2] + 2 * j.local_anchor_1[2]
                   = TwiceCentre(j.entity2)[2] + 2 * j.local_anchor_2[2]

\* C30: after the pass has indexed a level whose blocks do not overlap, the
\* origin cell of every block holds that block in the coordinate map.
C30_OriginCellHoldsBlock ==
    (ran_mortar_joints /\ NonOverlapping) =>
        LET grid == global_grid(level, NumBlocks)
        IN  \A b \in Blocks :
                /\ <<level[b].x, level[b].y>> \in DOMAIN grid
                /\ grid[<<level[b].x, level[b].y>>].entity = b

\* ------------------------------------------------------- arriving events

\* C24: an impulse event that arrives on a block is not lost: as long as no
\* run of the handler has selected it, it is still newly added, so the
\* handler's next run selects it.
C24_ArrivingEventNotLost ==
    \A b \in Blocks : (hit[b] # NoHit /\ evaluations[b] = 0) => b \in hitAdded

\* ------------------------------------------------------------ neighbours

\* C22: a call of is_neighbour returns TRUE exactly when the corners differ
\* by one block width along x with equal y, or by one block height along y
\* with equal x (so not for a diagonal offset), and every assertion the two
\* neighbour tests evaluate holds.
C22_NeighbourRuleAndTests ==
    /\ \A i \in 1..2 :
           isNeighbour[i] # << >> =>
               LET self == gridBlocks[i]
                   other == gridBlocks[3 - i]
                   dx == self.top_left_corner[1] - other.top_left_corner[1]
                   dy == self.top_left_corner[2] - other.top_left_corner[2]
                   width == self.normalised_block_size_x
                   height == self.normalised_block_size_y
               IN  isNeighbour[i][1] = \/ dx \in {width, -width} /\ dy = 0
                                       \/ dy \in {height, -height} /\ dx = 0
    /\ \A t \in Tests : \A k \in DOMAIN testAsserts[t] : testAsserts[t][k]

\* C23: is_neighbour is symmetric: called both ways round on two Blocks, of
\* equal or different normalised sizes, it returns the same value.
C23_NeighbourSymmetric ==
    (isNeighbour[1] # << >> /\ isNeighbour[2] # << >>) =>
        isNeighbour[1][1] = isNeighbour[2][1]

\* ------------------------------------------------------ shockwave falloff

\* The impulse magnitude the shockwave gave body i, or NoHit.
ImpulseOn(i) == shockwave[i]

DistanceSquaredOf(i) == length_squared(bodies[i].vector_to_target)

\* C29: an explosion gives an impulse event only to Dynamic bodies that are
\* neither fireballs nor in the lightning state and whose squared distance
\* lies strictly between 0.01 and 200^2; the magnitude is strictly positive,
\* below the base impulse 37500, and no larger for a farther body.
C29_ShockwaveOnlyInRange ==
    shockwave # << >> =>
        /\ \A i \in 1..NumBodies :
               ImpulseOn(i) # NoHit =>
                   /\ bodies[i].rigid_body = "Dynamic"
                   /\ bodies[i].marker = "None"
                   /\ DistanceSquaredOf(i) > 1
                   /\ DistanceSquaredOf(i) < 2000 * 2000
                   /\ ImpulseOn(i) > 0
                   /\ ImpulseOn(i) < 37500 * ImpulseScale
        /\ \A i, j \in 1..NumBodies :
               (ImpulseOn(i) # NoHit /\ ImpulseOn(j) # NoHit
                   /\ DistanceSquaredOf(i) <= DistanceSquaredOf(j)) =>
                   ImpulseOn(i) >= ImpulseOn(j)

\* An explosion has hit two bodies at different distances, the nearer one
\* strictly harder.
C29_Witness ==
    /\ shockwave # << >>
    /\ \E i, j \in 1..NumBodies :
           /\ ImpulseOn(i) # NoHit /\ ImpulseOn(j) # NoHit
           /\ DistanceSquaredOf(i) < DistanceSquaredOf(j)
           /\ ImpulseOn(i) > ImpulseOn(j)

\* ------------------------------------------------------- two explosions

\* The inserts of ShockwaveHit on block b in the queue of fireball_collisions.
InsertsOn(b) ==
    SelectSeq(cmds[SysFireball], LAMBDA c : c.op = "insert_hit" /\ c.entity = b)

\* A step that applies the queue of fireball_collisions.
FireballFlushStep == cmds[SysFireball] # << >> /\ cmds'[SysFireball] = << >>

\* C25: when the explosions of one tick that reach a block are two or more,
\* applying the tick's commands leaves the block with the impulse of the
\* explosion applied last (the earlier one is overwritten, not added to),
\* as one pending event that the handler's next run selects and that no run
\* has selected yet.
C25_LastExplosionPending ==
    [][FireballFlushStep =>
          \A b \in Blocks :
              Len(InsertsOn(b)) >= 2 =>
                  /\ hit'[b] = InsertsOn(b)[Len(InsertsOn(b))].impulse
                  /\ evaluations'[b] = 0
                  /\ b \in hitAdded']_vars

\* ------------------------------------------------------------ despawns

\* C21: while the level is loaded no castle block is despawned on its own:
\* the blocks that exist are the blocks created at level load.
C21_NoBlockDespawnedAlone == spawned => despawned = {}

\* C26: every joint that exists connects two distinct castle blocks that
\* both still exist.
C26_JointEndpointsExist ==
    \A j \in joints :
        /\ j.entity1 # j.entity2
        /\ spawned
        /\ j.entity1 \notin despawned
        /\ j.entity2 \notin despawned

====
